---- MODULE Spec2Model ----
(***************************************************************************)
(* Model of node-axios-metric (src/index.ts): the request, response and    *)
(* error interceptors that build AxiosRequestMetric, AxiosResponseMetric   *)
(* and AxiosErrorMetric, and the registration functions useRequestMetric,  *)
(* useResponseMetric and use.                                              *)
(*                                                                         *)
(* JavaScript objects are modelled by reference where the code shares      *)
(* them: a request config is an object at an address (the transaction's    *)
(* number), its headers are an object at an address in `heap`.  A field    *)
(* that may be undefined is a set with at most one element.                *)
(***************************************************************************)
EXTENDS Integers, Sequences, FiniteSets

\* Number of transactions issued through the client.
NumTxns == 2
\* Largest value the clock (performance.now()) takes.
MaxTime == 1

Txn == 1..NumTxns

\* An optional value (`x?: T`, `T | undefined`): absent, or present.
None == {}
Some(x) == {x}
Val(o) == CHOOSE x \in o : TRUE

\* The caller's own entry in config.metadata (Metadata's index signature).
CallerEntries == {"traceId"}
\* Header the caller sends, and one a later hook or the transport adds.
SentHeaders == {"accept"}
AddedHeader == "content-type"

VARIABLES
  now,        \* the value performance.now() returns
  reqHook,    \* whether the request interceptor is registered
  resHook,    \* the registered response interceptor's callbacks, if registered
  configs,    \* the request config object of each transaction
  heap,       \* the headers object of each transaction's config
  pc,         \* each transaction: "idle", "sent", "responded", "failed",
              \* or "orphaned" (failed before the request interceptor ran)
  event,      \* the response or failure value handed to the response interceptor
  settled,    \* what that interceptor returned or rejected with
  received,   \* the config as the request interceptor received it
  forwarded,  \* the address of the config the request interceptor returned
  cbLog       \* the callback invocations of each transaction, in order

vars == <<now, reqHook, resHook, configs, heap, pc, event, settled, received, forwarded, cbLog>>

----------------------------------------------------------------------------
\* Outcome of an expression that may throw.
Throw == [threw |-> TRUE, value |-> None]
Return(v) == [threw |-> FALSE, value |-> Some(v)]

\* The TypeError raised by reading a property of undefined.
TypeError == [name |-> "TypeError", id |-> 0, isAxiosError |-> FALSE, config |-> None]

\* axios.isAxiosError(error)
IsAxiosError(error) == error.isAxiosError

\* config.metadata.metric.request: defined only when every link is.
ReadRequestMetric(config) ==
  IF config.metadata = None THEN Throw
  ELSE IF Val(config.metadata).metric = None THEN Throw
  ELSE Return(Val(Val(config.metadata).metric).request)

\* new AxiosRequestMetric(config, start_time)
AxiosRequestMetric(config, start_time) ==
  [ method     |-> config.method,
    url        |-> config.url,
    headers    |-> config.headers,
    data       |-> config.data,
    start_time |-> start_time ]

\* The private constructor of AxiosResponseMetric: copies every field of its
\* argument but `request`.
AxiosResponseMetric(metric) ==
  [ method        |-> metric.method,
    url           |-> metric.url,
    headers       |-> metric.headers,
    request       |-> None,
    response      |-> metric.response,
    end_time      |-> metric.end_time,
    response_time |-> metric.response_time ]

\* A duration computed as the end timestamp alone.
FromAxiosResponseNoSubtract(response, end_time, cfgs) ==
  LET config == cfgs[response.config]
      read   == ReadRequestMetric(config)
  IN IF read.threw THEN Throw
     ELSE LET request == Val(read.value)
          IN Return(AxiosResponseMetric(
               [ method   |-> config.method,
                 url      |-> config.url,
                 headers  |-> response.headers,
                 request  |-> Some([ headers    |-> request.headers,
                                     start_time |-> request.start_time,
                                     data       |-> request.data ]),
                 response |-> [ status_code    |-> response.status,
                                status_message |-> response.statusText,
                                data           |-> response.data ],
                 end_time |-> end_time,
                 response_time |-> end_time ]))

\* AxiosResponseMetric.fromAxiosResponse(response, end_time)
FromAxiosResponse(response, end_time, cfgs) ==
  LET config == cfgs[response.config]
      read   == ReadRequestMetric(config)
  IN IF read.threw THEN Throw
     ELSE LET request == Val(read.value)
          IN Return(AxiosResponseMetric(
               [ method   |-> config.method,
                 url      |-> config.url,
                 headers  |-> response.headers,
                 request  |-> Some([ headers    |-> request.headers,
                                     start_time |-> request.start_time,
                                     data       |-> request.data ]),
                 response |-> [ status_code    |-> response.status,
                                status_message |-> response.statusText,
                                data           |-> response.data ],
                 end_time |-> end_time,
                 response_time |-> end_time - request.start_time ]))

\* The degraded metric of the constructor's else branch.
DegradedErrorMetric(error, end_time) ==
  [ method        |-> "undefined",
    url           |-> "undefined",
    headers       |-> None,
    request       |-> None,
    end_time      |-> end_time,
    response_time |-> -1,
    error         |-> error ]

\* An error metric that forgets which failure it reports.
AxiosErrorMetricLosesError(error, end_time, cfgs) ==
  IF IsAxiosError(error) /\ error.config # None
  THEN LET config == cfgs[Val(error.config)]
           read   == ReadRequestMetric(config)
       IN IF read.threw THEN Throw
          ELSE LET request == Val(read.value)
               IN Return([ method   |-> config.method,
                           url      |-> config.url,
                           headers  |-> Some(config.headers),
                           request  |-> Some([ headers    |-> request.headers,
                                               start_time |-> request.start_time,
                                               data       |-> request.data ]),
                           end_time |-> end_time,
                           response_time |-> end_time - request.start_time,
                           error    |-> TypeError ])
  ELSE Return(DegradedErrorMetric(error, end_time))

\* new AxiosErrorMetric(error, end_time)
AxiosErrorMetric(error, end_time, cfgs) ==
  IF IsAxiosError(error) /\ error.config # None
  THEN LET config == cfgs[Val(error.config)]
           read   == ReadRequestMetric(config)
       IN IF read.threw THEN Throw
          ELSE LET request == Val(read.value)
               IN Return([ method   |-> config.method,
                           url      |-> config.url,
                           headers  |-> Some(config.headers),
                           request  |-> Some([ headers    |-> request.headers,
                                               start_time |-> request.start_time,
                                               data       |-> request.data ]),
                           end_time |-> end_time,
                           response_time |-> end_time - request.start_time,
                           error    |-> error ])
  ELSE Return(DegradedErrorMetric(error, end_time))

----------------------------------------------------------------------------
\* What a settled interceptor hands on to the client.
Fulfilled(v) == [kind |-> "fulfilled", value |-> v]
Rejected(e) == [kind |-> "rejected", value |-> e]

\* The metadata object the request interceptor builds: { metric: { request } }.
NewMetadata(metric) == [metric |-> Some([request |-> metric]), extra |-> {}]

\* Metadata kept in one place shared by every request of the client.
AttachMetadataShared(cfgs, c, metric) ==
  [x \in DOMAIN cfgs |-> [cfgs[x] EXCEPT !.metadata = Some(NewMetadata(metric))]]

\* config.metadata = { metric: { request: metric } }
AttachMetadata(cfgs, c, metric) ==
  [cfgs EXCEPT ![c].metadata = Some(NewMetadata(metric))]

\* A request interceptor that calls back before it stores the metric.
RequestInterceptorCallbackFirst(cfgs, c, start_time) ==
  LET metric == AxiosRequestMetric(cfgs[c], start_time)
      after  == AttachMetadata(cfgs, c, metric)
  IN [ configs  |-> after,
       calls    |-> <<[cb |-> "request", metric |-> metric, arg |-> cfgs[c]]>>,
       returned |-> c ]

\* The request interceptor of useRequestMetric, cb being a function.
RequestInterceptor(cfgs, c, start_time) ==
  LET metric == AxiosRequestMetric(cfgs[c], start_time)
      after  == AttachMetadata(cfgs, c, metric)
  IN [ configs  |-> after,
       calls    |-> <<[cb |-> "request", metric |-> metric, arg |-> after[c]]>>,
       returned |-> c ]

\* The fulfilled-side interceptor of useResponseMetric; `res` tells whether
\* the response callback is a function (res?.(...) skips the call, and the
\* evaluation of its arguments, when it is not).
ResponseInterceptor(res, response, end_time, cfgs) ==
  IF res
  THEN LET m == FromAxiosResponse(response, end_time, cfgs)
       IN IF m.threw
          THEN [calls |-> <<>>, settle |-> Rejected(TypeError)]
          ELSE [ calls  |-> <<[cb |-> "response", metric |-> Val(m.value), arg |-> response]>>,
                 settle |-> Fulfilled(response) ]
  ELSE [calls |-> <<>>, settle |-> Fulfilled(response)]

\* A rejected-side interceptor that builds the metric before it looks at err.
ErrorInterceptorEager(err, error, end_time, cfgs) ==
  LET m == AxiosErrorMetric(error, end_time, cfgs)
  IN IF m.threw
     THEN [calls |-> <<>>, settle |-> Rejected(TypeError)]
     ELSE [ calls  |-> IF err
                       THEN <<[cb |-> "error", metric |-> Val(m.value), arg |-> error]>>
                       ELSE <<>>,
            settle |-> Rejected(error) ]

\* The rejected-side interceptor of useResponseMetric; `err` tells whether
\* the error callback is a function.
ErrorInterceptor(err, error, end_time, cfgs) ==
  IF err
  THEN LET m == AxiosErrorMetric(error, end_time, cfgs)
       IN IF m.threw
          THEN [calls |-> <<>>, settle |-> Rejected(TypeError)]
          ELSE [ calls  |-> <<[cb |-> "error", metric |-> Val(m.value), arg |-> error]>>,
                 settle |-> Rejected(error) ]
  ELSE [calls |-> <<>>, settle |-> Rejected(error)]

\* Each invocation, with the clock value at which its interceptor ran.
Stamp(calls, at) ==
  [i \in DOMAIN calls |-> [cb |-> calls[i].cb, metric |-> calls[i].metric,
                           arg |-> calls[i].arg, at |-> at]]

----------------------------------------------------------------------------
\* The config a caller hands to the client for transaction t.
\* Every other transaction carries metadata entries of the caller's own, and
\* the others leave method and url undefined.
InitialConfig(t) ==
  [ method   |-> IF t % 2 = 1 THEN "get" ELSE "undefined",
    url      |-> IF t % 2 = 1 THEN "/items" ELSE "undefined",
    headers  |-> t,
    data     |-> "body",
    metadata |-> IF t % 2 = 1
                 THEN Some([metric |-> None, extra |-> CallerEntries])
                 ELSE None ]

Statuses == {<<200, "OK">>, <<204, "No Content">>}

Init ==
  /\ now = 0
  /\ reqHook = FALSE
  /\ resHook = None
  /\ configs = [t \in Txn |-> InitialConfig(t)]
  /\ heap = [t \in Txn |-> SentHeaders]
  /\ pc = [t \in Txn |-> "idle"]
  /\ event = [t \in Txn |-> None]
  /\ settled = [t \in Txn |-> None]
  /\ received = [t \in Txn |-> None]
  /\ forwarded = [t \in Txn |-> None]
  /\ cbLog = [t \in Txn |-> <<>>]

\* useRequestMetric(axios, cb)
UseRequestMetric ==
  /\ ~reqHook
  /\ reqHook' = TRUE
  /\ UNCHANGED <<now, resHook, configs, heap, pc, event, settled, received, forwarded, cbLog>>

\* useResponseMetric(axios, res, err), each callback a function or null
UseResponseMetric ==
  /\ resHook = None
  /\ \E res \in BOOLEAN, err \in BOOLEAN : resHook' = Some([res |-> res, err |-> err])
  /\ UNCHANGED <<now, reqHook, configs, heap, pc, event, settled, received, forwarded, cbLog>>

\* use(axios, requestMetricCallback, responseMetricCallback)
Use ==
  /\ ~reqHook
  /\ resHook = None
  /\ reqHook' = TRUE
  /\ resHook' = Some([res |-> TRUE, err |-> FALSE])
  /\ UNCHANGED <<now, configs, heap, pc, event, settled, received, forwarded, cbLog>>

\* performance.now() advances.
Tick ==
  /\ now < MaxTime
  /\ now' = now + 1
  /\ UNCHANGED <<reqHook, resHook, configs, heap, pc, event, settled, received, forwarded, cbLog>>

\* The client runs the request interceptor on transaction t's config.
RequestHook(t) ==
  /\ reqHook
  /\ pc[t] = "idle"
  /\ LET r == RequestInterceptor(configs, t, now)
     IN /\ configs' = r.configs
        /\ cbLog' = [cbLog EXCEPT ![t] = @ \o Stamp(r.calls, now)]
        /\ received' = [received EXCEPT ![t] = Some(configs[t])]
        /\ forwarded' = [forwarded EXCEPT ![t] = Some(r.returned)]
  /\ pc' = [pc EXCEPT ![t] = "sent"]
  /\ UNCHANGED <<now, reqHook, resHook, heap, event, settled>>

\* A later hook or the transport sets a header on the config's headers object.
MutateHeaders(t) ==
  /\ pc[t] = "sent"
  /\ AddedHeader \notin heap[configs[t].headers]
  /\ heap' = [heap EXCEPT ![configs[t].headers] = @ \cup {AddedHeader}]
  /\ UNCHANGED <<now, reqHook, resHook, configs, pc, event, settled, received, forwarded, cbLog>>

\* The client runs the fulfilled-side interceptor on transaction t's response.
ResponseHook(t) ==
  /\ resHook # None
  /\ pc[t] = "sent"
  /\ \E st \in Statuses :
       LET response == [ id |-> t, status |-> st[1], statusText |-> st[2],
                         headers |-> "response-headers", data |-> "payload",
                         config |-> t ]
           r == ResponseInterceptor(Val(resHook).res, response, now, configs)
       IN /\ event' = [event EXCEPT ![t] = Some(response)]
          /\ settled' = [settled EXCEPT ![t] = Some(r.settle)]
          /\ cbLog' = [cbLog EXCEPT ![t] = @ \o Stamp(r.calls, now)]
  /\ pc' = [pc EXCEPT ![t] = "responded"]
  /\ UNCHANGED <<now, reqHook, resHook, configs, heap, received, forwarded>>

\* The client runs the rejected-side interceptor on a failure of transaction
\* t: any value, an AxiosError or not, carrying t's config or none.  A failure
\* may come before the request interceptor ran for t.
ErrorHook(t) ==
  /\ resHook # None
  /\ pc[t] \in {"idle", "sent"}
  /\ \E ax \in BOOLEAN, hasConfig \in BOOLEAN :
       LET error == [ name |-> "failure", id |-> t, isAxiosError |-> ax,
                      config |-> IF hasConfig THEN Some(t) ELSE None ]
           r == ErrorInterceptor(Val(resHook).err, error, now, configs)
       IN /\ event' = [event EXCEPT ![t] = Some(error)]
          /\ settled' = [settled EXCEPT ![t] = Some(r.settle)]
          /\ cbLog' = [cbLog EXCEPT ![t] = @ \o Stamp(r.calls, now)]
  /\ pc' = [pc EXCEPT ![t] = IF pc[t] = "sent" THEN "failed" ELSE "orphaned"]
  /\ UNCHANGED <<now, reqHook, resHook, configs, heap, received, forwarded>>

Next ==
  \/ UseRequestMetric
  \/ UseResponseMetric
  \/ Use
  \/ Tick
  \/ \E t \in Txn : RequestHook(t)
  \/ \E t \in Txn : MutateHeaders(t)
  \/ \E t \in Txn : ResponseHook(t)
  \/ \E t \in Txn : ErrorHook(t)

Spec == Init /\ [][Next]_vars

----------------------------------------------------------------------------
\* Properties.

\* The request interceptor ran for t (t had a request event).
Hooked(t) == pc[t] \in {"sent", "responded", "failed"}

\* The start_time of the RequestMetric the request interceptor captured for t,
\* as handed to the request callback.
CapturedStart(t) ==
  IF cbLog[t] # <<>> /\ cbLog[t][1].cb = "request"
  THEN Some(cbLog[t][1].metric.start_time)
  ELSE None

\* The callback invocations of t that deliver a response or error metric.
Deliveries(t) == {i \in DOMAIN cbLog[t] : cbLog[t][i].cb # "request"}

\* Both callbacks of useResponseMetric are functions.
BothCallbacks == resHook # None /\ Val(resHook).res /\ Val(resHook).err

\* C1: whatever the interleaving of the interceptors of distinct
\* transactions, the start_time behind a transaction's ResponseMetric, or
\* behind its correlated ErrorMetric, is the one the request interceptor
\* captured for that same transaction.
C1_OwnStartTime ==
  \A t \in Txn : \A i \in Deliveries(t) :
    LET e == cbLog[t][i]
    IN /\ e.cb = "response" =>
            /\ CapturedStart(t) # None
            /\ e.metric.response_time = e.metric.end_time - Val(CapturedStart(t))
       /\ (e.cb = "error" /\ e.metric.request # None) =>
            /\ CapturedStart(t) # None
            /\ Val(e.metric.request).start_time = Val(CapturedStart(t))
            /\ e.metric.response_time = e.metric.end_time - Val(CapturedStart(t))

\* Two transactions captured at different times have both delivered a metric
\* that carries timing, one of them a correlated error metric.
C1_Witness ==
  \E t \in Txn, u \in Txn :
    /\ t # u
    /\ CapturedStart(t) # None /\ CapturedStart(u) # None
    /\ CapturedStart(t) # CapturedStart(u)
    /\ \E i \in Deliveries(t) : cbLog[t][i].cb = "response"
    /\ \E j \in Deliveries(u) :
         cbLog[u][j].cb = "error" /\ cbLog[u][j].metric.request # None

\* C2: every ResponseMetric handed to the response callback has `request`
\* present, with the start_time captured for the same transaction.
C2_RequestPresent ==
  \A t \in Txn : \A i \in Deliveries(t) :
    LET e == cbLog[t][i]
    IN e.cb = "response" =>
         /\ e.metric.request # None
         /\ CapturedStart(t) # None
         /\ Val(e.metric.request).start_time = Val(CapturedStart(t))

\* C3: a response whose request interceptor ran at t0 and whose response
\* interceptor runs at t1 yields end_time = t1 and response_time = t1 - t0.
C3_ResponseTimeExact ==
  \A t \in Txn : \A i \in Deliveries(t) :
    LET e == cbLog[t][i]
    IN e.cb = "response" =>
         /\ cbLog[t][1].cb = "request"
         /\ e.metric.end_time = e.at
         /\ e.metric.response_time = e.at - cbLog[t][1].at

\* A response metric of a transaction answered at a later clock value than
\* the one at which its request was captured.
C3_Witness ==
  \E t \in Txn : \E i \in Deliveries(t) :
    /\ cbLog[t][i].cb = "response"
    /\ cbLog[t][i].at > cbLog[t][1].at
    /\ cbLog[t][i].metric.response_time = cbLog[t][i].at - cbLog[t][1].at

\* C4: a failure of a transaction whose request interceptor never ran yields,
\* whatever its shape, an ErrorMetric with `request` absent and
\* response_time = -1, handed to the error callback without a throw.
C4_OrphanDegrades ==
  \A t \in Txn :
    (pc[t] = "orphaned" /\ Val(resHook).err) =>
      /\ Len(cbLog[t]) = 1
      /\ cbLog[t][1].cb = "error"
      /\ cbLog[t][1].metric.request = None
      /\ cbLog[t][1].metric.response_time = -1

\* C5: a recognized client failure that carries its config, for a
\* transaction whose request interceptor ran, yields an ErrorMetric with
\* `request` present and holding the captured start_time, response_time =
\* end_time - request.start_time, and `error` the failure itself.
C5_CorrelatedError ==
  \A t \in Txn :
    ( /\ pc[t] = "failed"
      /\ Val(resHook).err
      /\ IsAxiosError(Val(event[t]))
      /\ Val(event[t]).config # None ) =>
      /\ Len(cbLog[t]) = 2
      /\ LET e == cbLog[t][2]
         IN /\ e.cb = "error"
            /\ e.metric.request # None
            /\ Val(e.metric.request).start_time = cbLog[t][1].metric.start_time
            /\ e.metric.end_time = e.at
            /\ e.metric.response_time =
                 e.metric.end_time - Val(e.metric.request).start_time
            /\ e.metric.error = Val(event[t])

\* A correlated error metric with a positive response time.
C5_Witness ==
  \E t \in Txn :
    /\ pc[t] = "failed"
    /\ IsAxiosError(Val(event[t])) /\ Val(event[t]).config # None
    /\ Len(cbLog[t]) = 2
    /\ cbLog[t][2].cb = "error"
    /\ cbLog[t][2].metric.request # None
    /\ cbLog[t][2].metric.response_time > 0

\* C6: the response interceptor returns the response it received, and the
\* error interceptor rejects with the failure it received, whatever the
\* failure's shape and whether or not the request interceptor ran.
C6_OutcomeForwarded ==
  \A t \in Txn :
    /\ pc[t] = "responded" => settled[t] = Some(Fulfilled(Val(event[t])))
    /\ pc[t] \in {"failed", "orphaned"} => settled[t] = Some(Rejected(Val(event[t])))

\* C7: with no error callback registered, a failure of any shape, of a
\* transaction whose request interceptor ran or not, does not make the error
\* interceptor throw, reaches no metric callback and is rejected unchanged.
C7_NoErrorCallback ==
  \A t \in Txn :
    (pc[t] \in {"failed", "orphaned"} /\ ~Val(resHook).err) =>
      /\ settled[t] = Some(Rejected(Val(event[t])))
      /\ Deliveries(t) = {}

\* Without an error callback, a recognized failure carrying a config that
\* holds no RequestMetric has been rejected unchanged.
C7_Witness ==
  \E t \in Txn :
    /\ pc[t] = "orphaned"
    /\ ~Val(resHook).err
    /\ IsAxiosError(Val(event[t])) /\ Val(event[t]).config # None
    /\ settled[t] = Some(Rejected(Val(event[t])))
    /\ cbLog[t] = <<>>

\* C8: the request interceptor returns the config it received, every field
\* and every metadata entry the config already carried unchanged, with the
\* RequestMetric entry added.
C8_RequestUntouched ==
  \A t \in Txn :
    Hooked(t) =>
      LET before == Val(received[t])
          after  == cbLog[t][1].arg
      IN /\ forwarded[t] = Some(t)
         /\ after.method = before.method
         /\ after.url = before.url
         /\ after.headers = before.headers
         /\ after.data = before.data
         /\ after.metadata # None
         /\ Val(after.metadata).metric = Some([request |-> cbLog[t][1].metric])
         /\ before.metadata # None =>
              Val(before.metadata).extra \subseteq Val(after.metadata).extra

\* C9: a transaction that passes the request interceptor causes one
\* request-callback invocation, made with the RequestMetric already stored
\* in its config; with both callbacks of useResponseMetric registered, its
\* completion causes one more invocation, of the response callback on
\* success and of the error callback on failure, after the request
\* callback's.
C9_OneCallbackPerEvent ==
  \A t \in Txn :
    /\ pc[t] = "idle" => cbLog[t] = <<>>
    /\ Hooked(t) =>
         /\ Len(cbLog[t]) >= 1
         /\ cbLog[t][1].cb = "request"
         /\ cbLog[t][1].arg.metadata = Some(NewMetadata(cbLog[t][1].metric))
         /\ \A i \in Deliveries(t) : i > 1
    /\ pc[t] = "sent" => Len(cbLog[t]) = 1
    /\ (pc[t] = "responded" /\ BothCallbacks) =>
         Len(cbLog[t]) = 2 /\ cbLog[t][2].cb = "response"
    /\ (pc[t] = "failed" /\ BothCallbacks) =>
         Len(cbLog[t]) = 2 /\ cbLog[t][2].cb = "error"

\* With all three callbacks registered, one transaction has succeeded and
\* another has failed, each after its request callback.
C9_Witness ==
  /\ reqHook /\ BothCallbacks
  /\ \E t \in Txn, u \in Txn :
       /\ pc[t] = "responded" /\ Len(cbLog[t]) = 2
       /\ pc[u] = "failed" /\ Len(cbLog[u]) = 2

\* What a reader of t's stored RequestMetric sees.
StoredMetricView(t) ==
  LET m == Val(Val(configs[t].metadata).metric).request
  IN [ method |-> m.method, url |-> m.url, headers |-> heap[m.headers],
       data |-> m.data, start_time |-> m.start_time ]

\* C10: once captured, the method, url, headers, body and start_time held in
\* a transaction's RequestMetric never change, whatever is later done to the
\* request's own headers or body.
C10_MetricImmutable ==
  [][\A t \in Txn : (Hooked(t) /\ Hooked(t)') =>
       StoredMetricView(t)' = StoredMetricView(t)]_vars

====
